---- MODULE Spec2Model ----
(***************************************************************************)
(* A model of the STAT-5350 art-plaque translator: the plaque field parser *)
(* (parser.py, parse_text), the translation entry point (translation.py,    *)
(* translate / get_trans_pipe) and the driver (art-translator.py, main).    *)
(*                                                                         *)
(* A Python str is a sequence of one-character strings; '' is << >>.        *)
(***************************************************************************)
EXTENDS Naturals, Sequences, FiniteSets

VARIABLES
    \* parser.py, parse_text
    raw_text,         \* argument raw_text
    debug,            \* argument debug (main hands its own debug flag down)
    information,      \* local dict `information` (None before line 46)
    lines,            \* local list `lines`
    i,                \* number of loop iterations of line 68 already completed
    last_line_blank,  \* local flag
    pc,               \* position inside parse_text
    stdout,           \* notices printed by parse_text so far
    earlier,          \* what the caller kept of parse_text's earlier calls
    \* translation.py
    _translator,      \* the module-level cached pipeline handle
    tr_raw_text,      \* translate's argument raw_text
    tr_model,         \* translate's local `model` (line 85)
    trans_text,       \* translate's return value
    tpc,              \* position inside translate
    pipeline_loads,   \* the models handed to transformers.pipeline(), in order
    translator_calls, \* the calls of the translation pipeline, in order
    \* art-translator.py, main
    source_lang,      \* argument source_lang
    target_lang,      \* argument target_lang
    cli,              \* argument cli
    pdf,              \* argument pdf
    trans_langs,      \* local (trans_source, trans_target)
    extracted_text,   \* local extracted_text
    translated,       \* the fields translate_text has translated so far
    cli_printed,      \* what cli_output printed (None if it never ran)
    pdf_written,      \* what pdf_output wrote (None if it never ran)
    error,            \* the exception that ended the run (None if none)
    mpc               \* position inside main

parse_vars == <<raw_text, debug, information, lines, i, last_line_blank, pc, stdout>>
trans_vars == <<_translator, tr_raw_text, tr_model, trans_text, tpc, pipeline_loads,
                translator_calls>>
main_vars  == <<source_lang, target_lang, cli, pdf, trans_langs, extracted_text,
                translated, cli_printed, pdf_written, error, mpc>>
vars == <<parse_vars, earlier, trans_vars, main_vars>>

-----------------------------------------------------------------------------
(* Bounds of the model *)

\* longest free-form input, in characters
MaxChars == 4
\* number of lines of a plaque-shaped input
MaxLines == 13
\* number of calls of parse_text one caller makes in a row
MaxCalls == 3
\* number of lines that follow a complete plaque
MaxTail == 4

-----------------------------------------------------------------------------
(* Python strings *)

NL == "\n"

\* the characters str.strip() removes (ASCII whitespace)
Whitespace == {" ", "\t", NL, "\r", "\f"}

\* the alphabet of the free-form inputs
Chars == {"a", "b", " ", NL}

\* Python's None where a dict, a handle or an exception is expected
None == [none |-> TRUE]
\* Python's None (or an unbound name) where a str is expected
NoStr == << "None" >>
\* a local that is not bound yet
Unbound == "unbound"

RECURSIVE LStrip(_)
LStrip(s) ==
    IF s = << >> THEN s
    ELSE IF Head(s) \in Whitespace THEN LStrip(Tail(s)) ELSE s

RECURSIVE RStrip(_)
RStrip(s) ==
    IF s = << >> THEN s
    ELSE IF s[Len(s)] \in Whitespace THEN RStrip(SubSeq(s, 1, Len(s) - 1)) ELSE s

\* str.strip()
Strip(s) == RStrip(LStrip(s))

\* str.split('\n'): the pieces between the newlines, always at least one
RECURSIVE Split(_)
Split(s) ==
    IF \A k \in 1..Len(s) : s[k] # NL THEN << s >>
    ELSE LET k == CHOOSE k \in 1..Len(s) : s[k] = NL /\ \A j \in 1..(k - 1) : s[j] # NL
         IN  << SubSeq(s, 1, k - 1) >> \o Split(SubSeq(s, k + 1, Len(s)))

\* [line.strip() for line in raw_text.split('\n')]
StrippedLines(s) == LET parts == Split(s) IN [k \in 1..Len(parts) |-> Strip(parts[k])]

\* '\n'.join(ls)
RECURSIVE Join(_)
Join(ls) ==
    IF ls = << >> THEN << >>
    ELSE IF Len(ls) = 1 THEN ls[1]
    ELSE ls[1] \o << NL >> \o Join(Tail(ls))

-----------------------------------------------------------------------------
(* Inputs *)

\* every string of at most MaxChars characters over Chars
FreeTexts == UNION { [1..n -> Chars] : n \in 0..MaxChars }

\* the text of the non-blank line at position p, distinct per position: one letter,
\* or (at the even positions) two words with a space between
Letters == <<"a", "b", "c", "d", "e", "f", "g", "h", "j", "k", "m", "n", "p", "q", "r", "s">>
Letter(p) == Letters[((p - 1) % Len(Letters)) + 1]
LineText(p) == IF p % 2 = 0 THEN << Letter(p), " ", Letter(p) >> ELSE << Letter(p) >>

\* plaque-shaped inputs: up to MaxLines lines, each blank or the text of its position
LayoutTexts ==
    UNION { { Join([p \in 1..n |-> IF shape[p] THEN LineText(p) ELSE << >>]) :
                shape \in [1..n -> BOOLEAN] } : n \in 1..MaxLines }

\* a complete plaque (author / life / - / title / year / - / medium / - / source / - /
\* description) followed by up to MaxTail more lines, each blank or a text
CompleteLen == 11
CompleteBlank == {3, 6, 8, 10}
TailTexts ==
    UNION { { Join([p \in 1..(CompleteLen + n) |->
                      IF p <= CompleteLen
                      THEN (IF p \in CompleteBlank THEN << >> ELSE LineText(p))
                      ELSE (IF shape[p - CompleteLen] THEN LineText(p) ELSE << >>)]) :
                shape \in [1..n -> BOOLEAN] } : n \in 1..MaxTail }

RawTexts == FreeTexts \cup LayoutTexts \cup TailTexts

-----------------------------------------------------------------------------
(* parser.py *)

Fields == {"author", "life_info", "title", "year", "medium", "source", "description"}

\* a variant of lines 46-56 that keeps the trimmed text
NewInformationTrimmed(text) ==
    [author |-> << >>, life_info |-> << >>, title |-> << >>, year |-> << >>,
     medium |-> << >>, source |-> << >>, description |-> << >>,
     parse_success |-> FALSE, raw_text |-> Strip(text)]

\* lines 46-56
NewInformation(text) ==
    [author |-> << >>, life_info |-> << >>, title |-> << >>, year |-> << >>,
     medium |-> << >>, source |-> << >>, description |-> << >>,
     parse_success |-> FALSE, raw_text |-> text]

\* a variant of line 97 that tests each value's truth (all(information.values())),
\* under which the False of parse_success fails the test
ValueTruthy(info, key) ==
    IF key = "parse_success" THEN info[key] ELSE info[key] # << >>

\* value != '' for one value of the dict: a bool never equals a str
ValueNotEmpty(info, key) ==
    IF key = "parse_success" THEN TRUE ELSE info[key] # << >>

\* line 97: all(value != '' for value in information.values())
AllValuesNonEmpty(info) == \A key \in DOMAIN info : ValueNotEmpty(info, key)

\* a variant of line 59 that tests the text untrimmed (not raw_text)
NoTextUntrimmed(text) == text = << >>

\* line 59: not raw_text.strip()
NoText(text) == Strip(text) = << >>

\* the guards of the eight rules, in the order of the elif chain
\* line 70
GuardAuthor(info, llb) == info.author = << >>
\* variants of line 73: the field's emptiness not tested, or the flag tested the other
\* way round
GuardLifeInfoOverwrite(info, llb) == llb = FALSE
GuardLifeInfoAfterBlank(info, llb) == info.life_info = << >> /\ llb = TRUE
\* line 73
GuardLifeInfo(info, llb) == info.life_info = << >> /\ llb = FALSE
\* a variant of line 76: the flag tested the other way round
GuardTitleAfterText(info, llb) == info.title = << >> /\ llb = FALSE
\* line 76
GuardTitle(info, llb) == info.title = << >> /\ llb = TRUE
\* variants of line 79: the flag tested the other way round, or not at all
GuardYearAfterBlank(info, llb) == info.year = << >> /\ llb = TRUE
GuardYearAnywhere(info, llb) == info.year = << >>
\* line 79
GuardYear(info, llb) == info.year = << >> /\ llb = FALSE
\* line 82
GuardMedium(info, llb) == info.medium = << >> /\ llb = TRUE
\* line 85
GuardSource(info, llb) == info.source = << >> /\ llb = TRUE
\* line 88
GuardDescription(info, llb) == info.description = << >> /\ llb = TRUE
\* variants of line 91: the flag tested the other way round, or not at all
GuardAppendAfterBlank(info, llb) == info.description # << >> /\ llb = TRUE
GuardAppendAnywhere(info, llb) == info.description # << >>
\* line 91
GuardAppend(info, llb) == info.description # << >> /\ llb = FALSE

\* a variant of the chain in which a line no rule takes still clears the flag
FlagClearedByDrop(llb) == FALSE

\* lines 69-93 have no else branch: a line no rule takes leaves the flag as it was
FlagAfterDrop(llb) == llb

\* lines 69-95: one iteration of the loop on the (stripped) line; the first rule
\* whose guard holds takes the line, and a line no rule takes changes nothing
ClassifyLine(info, llb, line) ==
    IF line # << >> THEN
        IF GuardAuthor(info, llb) THEN
            [information |-> [info EXCEPT !.author = line], last_line_blank |-> FALSE]
        ELSE IF GuardLifeInfo(info, llb) THEN
            [information |-> [info EXCEPT !.life_info = line], last_line_blank |-> FALSE]
        ELSE IF GuardTitle(info, llb) THEN
            [information |-> [info EXCEPT !.title = line], last_line_blank |-> FALSE]
        ELSE IF GuardYear(info, llb) THEN
            [information |-> [info EXCEPT !.year = line], last_line_blank |-> FALSE]
        ELSE IF GuardMedium(info, llb) THEN
            [information |-> [info EXCEPT !.medium = line], last_line_blank |-> FALSE]
        ELSE IF GuardSource(info, llb) THEN
            [information |-> [info EXCEPT !.source = line], last_line_blank |-> FALSE]
        ELSE IF GuardDescription(info, llb) THEN
            [information |-> [info EXCEPT !.description = line], last_line_blank |-> FALSE]
        ELSE IF GuardAppend(info, llb) THEN
            [information |-> [info EXCEPT !.description = info.description \o << NL >> \o line],
             last_line_blank |-> FALSE]
        ELSE
            [information |-> info, last_line_blank |-> FlagAfterDrop(llb)]
    ELSE
        [information |-> info, last_line_blank |-> TRUE]

\* a variant of lines 44-56 that builds the dict once and reuses it in later calls
\* (a module-level dict, or a mutable default argument)
ParseEnterReuse ==
    /\ pc = "call"
    /\ information' = IF information = None THEN NewInformation(raw_text)
                      ELSE [information EXCEPT !.parse_success = FALSE, !.raw_text = raw_text]
    /\ lines' = << >>
    /\ i' = 0
    /\ last_line_blank' = Unbound
    /\ pc' = "check"
    /\ UNCHANGED earlier
    /\ UNCHANGED <<raw_text, debug, stdout, trans_vars, main_vars>>

\* lines 44-56: the call binds the arguments in a fresh frame and builds the dict
ParseEnter ==
    /\ pc = "call"
    /\ information' = NewInformation(raw_text)
    /\ lines' = << >>
    /\ i' = 0
    /\ last_line_blank' = Unbound
    /\ pc' = "check"
    /\ UNCHANGED earlier
    /\ UNCHANGED <<raw_text, debug, stdout, trans_vars, main_vars>>

\* lines 59-62: the empty-input exit
ParseEmpty ==
    /\ pc = "check"
    /\ NoText(raw_text)
    /\ stdout' = IF debug THEN Append(stdout, "No text provided to parse and clean.")
                 ELSE stdout
    /\ pc' = "done"
    /\ UNCHANGED earlier
    /\ UNCHANGED <<raw_text, debug, information, lines, i, last_line_blank,
                   trans_vars, main_vars>>

\* lines 64-67
ParseSplit ==
    /\ pc = "check"
    /\ ~NoText(raw_text)
    /\ lines' = StrippedLines(raw_text)
    /\ stdout' = Append(stdout, "Parsing extracted text.")
    /\ last_line_blank' = TRUE
    /\ i' = 0
    /\ pc' = "loop"
    /\ UNCHANGED earlier
    /\ UNCHANGED <<raw_text, debug, information, trans_vars, main_vars>>

\* lines 68-95: one iteration
ParseLine ==
    /\ pc = "loop"
    /\ i < Len(lines)
    /\ LET r == ClassifyLine(information, last_line_blank, lines[i + 1])
       IN  /\ information' = r.information
           /\ last_line_blank' = r.last_line_blank
    /\ i' = i + 1
    /\ UNCHANGED earlier
    /\ UNCHANGED <<raw_text, debug, lines, pc, stdout, trans_vars, main_vars>>

\* lines 97-101: the loop is over
ParseFinish ==
    /\ pc = "loop"
    /\ i = Len(lines)
    /\ IF AllValuesNonEmpty(information)
       THEN /\ stdout' = Append(stdout, "Successfully parsed extracted text. All fields collected.")
            /\ information' = [information EXCEPT !.parse_success = TRUE]
       ELSE UNCHANGED <<stdout, information>>
    /\ pc' = "done"
    /\ UNCHANGED earlier
    /\ UNCHANGED <<raw_text, debug, lines, i, last_line_blank, trans_vars, main_vars>>

ParseStep == ParseEnter \/ ParseEmpty \/ ParseSplit \/ ParseLine \/ ParseFinish

-----------------------------------------------------------------------------
(* translation.py *)

\* line 85: f"Helsinki-NLP/opus-mt-{source_lang}-{target_lang}"
OpusModel(src, tgt) == [family |-> "Helsinki-NLP/opus-mt", src |-> src, tgt |-> tgt]

\* lines 60-61: "facebook/nllb-200-distilled-600M"
NllbModel == [family |-> "facebook/nllb-200-distilled-600M"]

\* line 98: "nllb" in translator.model.config._name_or_path
IsNllb(handle) == handle.family = "facebook/nllb-200-distilled-600M"

\* what the translation pipeline may answer (result[0]["translation_text"])
PipelineOutputs == { <<"x">>, <<" ", "y", NL>> }

\* a variant of line 88 that tests the text untrimmed (not raw_text)
NoTextToTranslateUntrimmed(text) == text = << >>

\* line 88: not raw_text.strip()
NoTextToTranslate(text) == Strip(text) = << >>

\* get_trans_pipe, lines 41-63: the cached handle, or the requested model loaded,
\* or (the load failing) the NLLB fallback loaded, or the fallback's own exception
get_trans_pipe ==
    IF _translator # None THEN
        /\ tpc' = "built"
        /\ UNCHANGED <<_translator, pipeline_loads>>
    ELSE
        \/ /\ pipeline_loads' = Append(pipeline_loads, tr_model)
           /\ _translator' = tr_model
           /\ tpc' = "built"
        \/ /\ pipeline_loads' = pipeline_loads \o << tr_model, NllbModel >>
           /\ _translator' = NllbModel
           /\ tpc' = "built"
        \/ /\ pipeline_loads' = pipeline_loads \o << tr_model, NllbModel >>
           /\ _translator' = None
           /\ tpc' = "raised"

\* translate, lines 84-94: the empty-text exit, or the translator is built
Translate ==
    /\ tpc = "check"
    /\ IF NoTextToTranslate(tr_raw_text)
       THEN /\ trans_text' = << >>
            /\ tpc' = "returned"
            /\ UNCHANGED <<_translator, pipeline_loads>>
       ELSE /\ get_trans_pipe
            /\ UNCHANGED trans_text
    /\ UNCHANGED earlier
    /\ UNCHANGED <<tr_raw_text, tr_model, translator_calls, parse_vars, main_vars>>

\* lines 98-120: the pipeline translates (or raises) and the answer is stripped; an
\* NLLB handle is called with the target language's forced_bos_token_id
TranslateRun ==
    /\ tpc = "built"
    /\ translator_calls' = Append(translator_calls,
                                  [text |-> tr_raw_text, forced_bos |-> IsNllb(_translator)])
    /\ \/ \E answer \in PipelineOutputs :
             /\ trans_text' = Strip(answer)
             /\ tpc' = "returned"
       \/ /\ tpc' = "raised"
          /\ UNCHANGED trans_text
    /\ UNCHANGED earlier
    /\ UNCHANGED <<_translator, tr_raw_text, tr_model, pipeline_loads,
                   parse_vars, main_vars>>

TranslateStep == Translate \/ TranslateRun

-----------------------------------------------------------------------------
(* art-translator.py *)

\* lines 42-75, in the order of the dict
lang_map == <<
    [key |-> <<"e", "n", "g", "l", "i", "s", "h">>, trans |-> <<"e", "n">>, ocr |-> <<"e", "n", "g">>],
    [key |-> <<"e", "n">>, trans |-> <<"e", "n">>, ocr |-> <<"e", "n", "g">>],
    [key |-> <<"f", "r", "e", "n", "c", "h">>, trans |-> <<"f", "r">>, ocr |-> <<"f", "r", "a">>],
    [key |-> <<"f", "r">>, trans |-> <<"f", "r">>, ocr |-> <<"f", "r", "a">>],
    [key |-> <<"g", "e", "r", "m", "a", "n">>, trans |-> <<"d", "e">>, ocr |-> <<"d", "e", "u">>],
    [key |-> <<"d", "e">>, trans |-> <<"d", "e">>, ocr |-> <<"d", "e", "u">>],
    [key |-> <<"s", "p", "a", "n", "i", "s", "h">>, trans |-> <<"e", "s">>, ocr |-> <<"s", "p", "a">>],
    [key |-> <<"e", "s">>, trans |-> <<"e", "s">>, ocr |-> <<"s", "p", "a">>],
    [key |-> <<"i", "t", "a", "l", "i", "a", "n">>, trans |-> <<"i", "t">>, ocr |-> <<"i", "t", "a">>],
    [key |-> <<"i", "t">>, trans |-> <<"i", "t">>, ocr |-> <<"i", "t", "a">>],
    [key |-> <<"c", "h", "i", "n", "e", "s", "e">>, trans |-> <<"z", "h">>, ocr |-> <<"c", "h", "i", "_", "s", "i", "m">>],
    [key |-> <<"z", "h">>, trans |-> <<"z", "h">>, ocr |-> <<"c", "h", "i", "_", "s", "i", "m">>],
    [key |-> <<"j", "a", "p", "a", "n", "e", "s", "e">>, trans |-> <<"j", "a">>, ocr |-> <<"j", "p", "n">>],
    [key |-> <<"j", "a">>, trans |-> <<"j", "a">>, ocr |-> <<"j", "p", "n">>],
    [key |-> <<"r", "u", "s", "s", "i", "a", "n">>, trans |-> <<"r", "u">>, ocr |-> <<"r", "u", "s">>],
    [key |-> <<"r", "u">>, trans |-> <<"r", "u">>, ocr |-> <<"r", "u", "s">>]
>>

\* str.lower() on the letters the inputs use
Lower(s) ==
    [k \in 1..Len(s) |->
        CASE s[k] = "E" -> "e" [] s[k] = "F" -> "f" [] s[k] = "R" -> "r"
          [] s[k] = "N" -> "n" [] OTHER -> s[k]]

\* a variant of lines 77-85 that answers an unknown language with the English entry
\* instead of raising
normalize_lang_lenient(user_lang) ==
    LET low_lang == Strip(Lower(user_lang))
        known == { k \in 1..Len(lang_map) :
                     low_lang \in {lang_map[k].key, lang_map[k].trans, lang_map[k].ocr} }
    IN  [ok |-> TRUE,
         val |-> lang_map[IF known = {} THEN 1 ELSE CHOOSE k \in known : \A j \in known : k <= j]]

\* lines 77-85: normalize_lang; the answer is a lang_map entry, or the ValueError
normalize_lang(user_lang) ==
    LET low_lang == Strip(Lower(user_lang))
        byKey  == { k \in 1..Len(lang_map) : lang_map[k].key = low_lang }
        byCode == { k \in 1..Len(lang_map) :
                      low_lang = lang_map[k].trans \/ low_lang = lang_map[k].ocr }
        first(S) == CHOOSE k \in S : \A j \in S : k <= j
    IN  IF byKey # {} THEN [ok |-> TRUE, val |-> lang_map[first(byKey)]]
        ELSE IF byCode # {} THEN [ok |-> TRUE, val |-> lang_map[first(byCode)]]
        ELSE [ok |-> FALSE, error |-> [type |-> "ValueError",
                                        msg |-> "Unsupported language", arg |-> user_lang]]

\* lines 87-100: lang_converter(mode, source, target)
lang_converter(mode, source, target) ==
    IF mode = "ocr" THEN
        IF target # NoStr
        THEN [ok |-> FALSE, error |-> [type |-> "ValueError",
                  msg |-> "Target lang not needed for OCR mode", arg |-> target]]
        ELSE LET src == normalize_lang(source)
             IN  IF src.ok THEN [ok |-> TRUE, val |-> src.val.ocr] ELSE src
    ELSE IF mode = "trans" THEN
        IF target = NoStr
        THEN [ok |-> FALSE, error |-> [type |-> "ValueError",
                  msg |-> "Target lang required for trans mode", arg |-> target]]
        ELSE LET src == normalize_lang(source)
                 tgt == normalize_lang(target)
             IN  IF ~src.ok THEN src
                 ELSE IF ~tgt.ok THEN tgt
                 ELSE [ok |-> TRUE, val |-> <<src.val.trans, tgt.val.trans>>]
    ELSE [ok |-> FALSE, error |-> [type |-> "ValueError", msg |-> "Invalid mode", arg |-> mode]]

\* the languages a user may name
LangInputs == { <<"E", "n", "g", "l", "i", "s", "h", " ">>, <<"f", "r", "a">>, <<"x", "x">> }

\* the canonical plaque: author / life / - / title / year / - / medium / - / source / - /
\* description, then a blank and a further line when MaxLines allows
CanonBlank == {3, 6, 8, 10, 12}

\* the plaque-shaped texts at most one line away from the canonical plaque
PlaqueTexts ==
    { Join([p \in 1..MaxLines |->
              IF (p \in CanonBlank) # (p = q) THEN << >> ELSE LineText(p)]) :
        q \in 0..MaxLines }

\* what the OCR step may hand to main
OcrTexts == FreeTexts \cup PlaqueTexts

\* the five fields translate_text translates, in the order of lines 170-178
TranslatedFields == <<"life_info", "title", "medium", "source", "description">>

\* lines 322-325: both languages are normalised before anything else runs
MainLangs ==
    /\ mpc = "langs"
    /\ LET ocr   == lang_converter("ocr", source_lang, NoStr)
           trans == lang_converter("trans", source_lang, target_lang)
       IN  IF ~ocr.ok THEN
               /\ error' = ocr.error
               /\ mpc' = "raised"
               /\ UNCHANGED trans_langs
           ELSE IF ~trans.ok THEN
               /\ error' = trans.error
               /\ mpc' = "raised"
               /\ UNCHANGED trans_langs
           ELSE
               /\ trans_langs' = trans.val
               /\ mpc' = "extract"
               /\ UNCHANGED error
    /\ UNCHANGED earlier
    /\ UNCHANGED <<source_lang, target_lang, cli, pdf, extracted_text, translated,
                   cli_printed, pdf_written, parse_vars, trans_vars>>

\* line 335: text_extract returns whatever the OCR read, or raises (ocr.py 41, 46)
MainExtract ==
    /\ mpc = "extract"
    /\ \/ \E text \in OcrTexts :
             /\ extracted_text' = text
             /\ mpc' = "parse"
             /\ UNCHANGED error
       \/ /\ error' = [type |-> "FileNotFoundError", msg |-> "Image file not found",
                       arg |-> None]
          /\ mpc' = "raised"
          /\ UNCHANGED extracted_text
    /\ UNCHANGED earlier
    /\ UNCHANGED <<source_lang, target_lang, cli, pdf, trans_langs, translated,
                   cli_printed, pdf_written, parse_vars, trans_vars>>

\* line 341 with clean_text, lines 142-143: parse_text is called
MainCleanText ==
    /\ mpc = "parse"
    /\ raw_text' = extracted_text
    /\ pc' = "call"
    /\ mpc' = "parsing"
    /\ UNCHANGED earlier
    /\ UNCHANGED <<debug, information, lines, i, last_line_blank, stdout,
                   trans_vars, source_lang, target_lang, cli, pdf, trans_langs,
                   extracted_text, translated, cli_printed, pdf_written, error>>

\* a variant of lines 342-345 that aborts only when no author was found
MainCheckAuthorOnly ==
    /\ mpc = "parsing"
    /\ pc = "done"
    /\ IF information.author = << >>
       THEN /\ error' = [type |-> "ValueError", msg |-> "Parser failed to find all fields",
                         arg |-> information]
            /\ mpc' = "raised"
       ELSE /\ mpc' = "translate"
            /\ UNCHANGED error
    /\ UNCHANGED earlier
    /\ UNCHANGED <<source_lang, target_lang, cli, pdf, trans_langs, extracted_text,
                   translated, cli_printed, pdf_written, parse_vars, trans_vars>>

\* lines 342-345: parse_text has returned; an incomplete record ends the run
MainCheck ==
    /\ mpc = "parsing"
    /\ pc = "done"
    /\ IF information.parse_success # TRUE
       THEN /\ error' = [type |-> "ValueError", msg |-> "Parser failed to find all fields",
                         arg |-> information]
            /\ mpc' = "raised"
       ELSE /\ mpc' = "translate"
            /\ UNCHANGED error
    /\ UNCHANGED earlier
    /\ UNCHANGED <<source_lang, target_lang, cli, pdf, trans_langs, extracted_text,
                   translated, cli_printed, pdf_written, parse_vars, trans_vars>>

\* lines 351-359 with translate_text, lines 170-178: the next field is handed to
\* translate (lines 79-85)
MainTranslateCall ==
    /\ mpc = "translate"
    /\ Len(translated) < Len(TranslatedFields)
    /\ tpc \in {"idle", "returned"}
    /\ tr_raw_text' = information[TranslatedFields[Len(translated) + 1]]
    /\ tr_model' = OpusModel(trans_langs[1], trans_langs[2])
    /\ tpc' = "check"
    /\ mpc' = "translating"
    /\ UNCHANGED earlier
    /\ UNCHANGED <<_translator, trans_text, pipeline_loads, translator_calls, parse_vars,
                   source_lang, target_lang, cli, pdf, trans_langs, extracted_text,
                   translated, cli_printed, pdf_written, error>>

\* translate has returned its text, or raised
MainTranslateReturn ==
    /\ mpc = "translating"
    /\ \/ /\ tpc = "returned"
          /\ translated' = Append(translated, trans_text)
          /\ mpc' = "translate"
          /\ UNCHANGED error
       \/ /\ tpc = "raised"
          /\ error' = [type |-> "Exception", msg |-> "translation failed", arg |-> None]
          /\ mpc' = "raised"
          /\ UNCHANGED translated
    /\ UNCHANGED earlier
    /\ UNCHANGED <<source_lang, target_lang, cli, pdf, trans_langs, extracted_text,
                   cli_printed, pdf_written, parse_vars, trans_vars>>

\* the record both renderers receive: author and year verbatim, the rest translated
Rendered ==
    [author |-> information.author, life_info |-> translated[1], title |-> translated[2],
     year |-> information.year, medium |-> translated[3], source |-> translated[4],
     description |-> translated[5]]

\* lines 363-366
MainCli ==
    /\ mpc = "translate"
    /\ Len(translated) = Len(TranslatedFields)
    /\ cli_printed' = IF cli THEN Rendered ELSE cli_printed
    /\ mpc' = "pdf"
    /\ UNCHANGED earlier
    /\ UNCHANGED <<source_lang, target_lang, cli, pdf, trans_langs, extracted_text,
                   translated, pdf_written, error, parse_vars, trans_vars>>

\* lines 369-373
MainPdf ==
    /\ mpc = "pdf"
    /\ pdf_written' = IF pdf THEN Rendered ELSE pdf_written
    /\ mpc' = "done"
    /\ UNCHANGED earlier
    /\ UNCHANGED <<source_lang, target_lang, cli, pdf, trans_langs, extracted_text,
                   translated, cli_printed, error, parse_vars, trans_vars>>

MainStep ==
    \/ MainLangs
    \/ MainExtract
    \/ MainCleanText
    \/ MainCheck
    \/ MainTranslateCall
    \/ MainTranslateReturn
    \/ MainCli
    \/ MainPdf

-----------------------------------------------------------------------------
(* Specifications *)

ParseIdle ==
    /\ earlier = << >>
    /\ information = None
    /\ lines = << >>
    /\ i = 0
    /\ last_line_blank = Unbound
    /\ stdout = << >>

TranslateIdle ==
    /\ tr_raw_text = NoStr
    /\ tr_model = None
    /\ trans_text = NoStr
    /\ pipeline_loads = << >>
    /\ translator_calls = << >>

MainIdle ==
    /\ source_lang = NoStr
    /\ target_lang = NoStr
    /\ cli = FALSE
    /\ pdf = FALSE
    /\ trans_langs = NoStr
    /\ extracted_text = NoStr
    /\ translated = << >>
    /\ cli_printed = None
    /\ pdf_written = None
    /\ error = None
    /\ mpc = "idle"

\* one run of main (lines 313-373) in a fresh process
Init ==
    /\ source_lang \in LangInputs
    /\ target_lang \in LangInputs
    /\ debug \in BOOLEAN
    /\ cli \in BOOLEAN
    /\ pdf \in BOOLEAN
    /\ trans_langs = NoStr
    /\ extracted_text = NoStr
    /\ translated = << >>
    /\ cli_printed = None
    /\ pdf_written = None
    /\ error = None
    /\ mpc = "langs"
    /\ raw_text = NoStr
    /\ pc = "idle"
    /\ ParseIdle
    /\ _translator = None
    /\ tpc = "idle"
    /\ TranslateIdle

Next == MainStep \/ ParseStep \/ TranslateStep

Spec == Init /\ [][Next]_vars

\* parse_text called on any input
InitParse ==
    /\ raw_text \in RawTexts
    /\ debug \in BOOLEAN
    /\ pc = "call"
    /\ ParseIdle
    /\ _translator = None
    /\ tpc = "idle"
    /\ TranslateIdle
    /\ MainIdle

NextParse == ParseStep

SpecParse == InitParse /\ [][NextParse]_vars

\* the text a caller may parse between two calls on the same text: the canonical
\* plaque, which fills every field
ProbeTexts == { Join([p \in 1..11 |-> IF p \in CanonBlank THEN << >> ELSE LineText(p)]) }

\* parse_text (line 44) is called again by the same caller, in the same process: on
\* a text it parsed before or on a probe text, with any debug flag
ParseAgain ==
    /\ pc = "done"
    /\ Len(earlier) + 1 < MaxCalls
    /\ earlier' = Append(earlier, [raw_text |-> raw_text, debug |-> debug,
                                  result |-> information])
    /\ raw_text' \in ProbeTexts \cup { earlier'[k].raw_text : k \in 1..Len(earlier') }
    /\ debug' \in BOOLEAN
    /\ pc' = "call"
    /\ UNCHANGED <<information, lines, i, last_line_blank, stdout, trans_vars, main_vars>>

\* parse_text called up to MaxCalls times in a row
InitTwice ==
    /\ raw_text \in OcrTexts
    /\ debug \in BOOLEAN
    /\ pc = "call"
    /\ ParseIdle
    /\ _translator = None
    /\ tpc = "idle"
    /\ TranslateIdle
    /\ MainIdle

NextTwice == ParseStep \/ ParseAgain

SpecTwice == InitTwice /\ [][NextTwice]_vars

\* translate called on any text, with or without a handle cached by an earlier call
InitTranslate ==
    /\ tr_raw_text \in FreeTexts
    /\ \E src \in {<<"e", "n">>}, tgt \in {<<"f", "r">>, <<"d", "e">>} :
          tr_model = OpusModel(src, tgt)
    /\ _translator \in {None, OpusModel(<<"e", "n">>, <<"f", "r">>), NllbModel}
    /\ trans_text = NoStr
    /\ pipeline_loads = << >>
    /\ translator_calls = << >>
    /\ tpc = "check"
    /\ raw_text = NoStr
    /\ debug = FALSE
    /\ pc = "idle"
    /\ ParseIdle
    /\ MainIdle

NextTranslate == TranslateStep

SpecTranslate == InitTranslate /\ [][NextTranslate]_vars

-----------------------------------------------------------------------------
(* Properties *)

\* every character of s is one str.strip() removes
AllWhitespace(s) == \A k \in 1..Len(s) : s[k] \in Whitespace

AllSeven(info) == \A f \in Fields : info[f] # << >>

\* C1: an input that is empty after trimming makes parse_text return at once: no
\* line was split off or processed, the seven fields are all '' and parse_success
\* is False.
C1_EmptyInput ==
    (pc = "done" /\ AllWhitespace(raw_text)) =>
        /\ \A f \in Fields : information[f] = << >>
        /\ information.parse_success = FALSE
        /\ lines = << >>
        /\ i = 0
        /\ last_line_blank = Unbound

\* C1 happens: a whitespace-only (not empty) input has been returned from
C1_Witness ==
    /\ pc = "done"
    /\ raw_text # << >>
    /\ AllWhitespace(raw_text)
    /\ information.raw_text = raw_text

\* C2: on return, parse_success is True exactly when the seven fields are all
\* non-empty, for every input and debug flag; raw_text and parse_success, though
\* among the values line 97 tests, never decide it.
C2_SuccessIffSeven ==
    pc = "done" => (information.parse_success = TRUE <=> AllSeven(information))

\* C2 happens: a parse has returned with all seven fields and parse_success True
C2_Witness ==
    /\ pc = "done"
    /\ AllSeven(information)
    /\ information.parse_success = TRUE

\* C3: from the construction of the record to the return, raw_text in the record
\* is the input verbatim, on every exit.
C3_RawTextVerbatim ==
    pc \in {"check", "loop", "done"} => information.raw_text = raw_text

\* C3 happens: an input with surrounding whitespace was parsed into fields
C3_Witness ==
    /\ pc = "done"
    /\ Strip(raw_text) # raw_text
    /\ information.author # << >>
    /\ information.raw_text = raw_text

\* main has gone past the check of lines 342-343, or produced anything downstream
PastParseCheck ==
    \/ mpc \in {"translate", "translating", "pdf", "done"}
    \/ tpc # "idle"
    \/ translated # << >>
    \/ pipeline_loads # << >>
    \/ translator_calls # << >>
    \/ cli_printed # None
    \/ pdf_written # None

\* C4: main translates and renders only after parse_text returned parse_success
\* True; when it returned False the run is at the check or has ended with the
\* ValueError that carries the record, with no translation call and no output.
C4_TranslateOnlyAfterSuccess ==
    /\ PastParseCheck => (pc = "done" /\ information.parse_success = TRUE)
    /\ (pc = "done" /\ information.parse_success # TRUE) =>
          /\ mpc \in {"parsing", "raised"}
          /\ mpc = "raised" =>
                error = [type |-> "ValueError", msg |-> "Parser failed to find all fields",
                         arg |-> information]
          /\ ~PastParseCheck

\* C4 happens: a partly filled record ended the run
C4_Witness ==
    /\ mpc = "raised"
    /\ pc = "done"
    /\ information.parse_success = FALSE
    /\ information.title # << >>
    /\ error.arg = information

\* the block heads of a list of lines: the non-blank lines that open the list or
\* directly follow a blank line
Heads(ls) == { k \in 1..Len(ls) : ls[k] # << >> /\ (k = 1 \/ ls[k - 1] = << >>) }

\* the n-th block head
NthHead(ls, n) == CHOOSE k \in Heads(ls) : Cardinality({ j \in Heads(ls) : j < k }) = n - 1

\* the line description takes as its first line: blank-preceded lines go, in order,
\* to author, title, medium, source and description, so it is the fifth block head
HasDescHead(ls) == Cardinality(Heads(ls)) >= 5
DescHead(ls) == NthHead(ls, 5)

\* line k directly follows the description's first line, with no blank line between
ContinuesDescription(ls, k) ==
    /\ k \in 1..Len(ls)
    /\ HasDescHead(ls)
    /\ k > DescHead(ls)
    /\ \A j \in DescHead(ls)..k : ls[j] # << >>

\* the step appends the line being processed to description, behind exactly one
\* newline, and writes no other field
AppendsToDescription ==
    /\ information'.description = information.description \o << NL >> \o lines[i + 1]
    /\ \A f \in Fields \ {"description"} : information'[f] = information[f]

\* C5, as claimed: every non-blank line that directly follows the description's
\* first line (no blank line between) is appended to description behind one newline
\* and assigned to no other field.
C5_AsClaimed ==
    [][(pc = "loop" /\ i < Len(lines) /\ ContinuesDescription(lines, i + 1))
          => AppendsToDescription]_vars

\* C5, amended: such a line is appended to description, behind one newline and
\* touching no other field, when life_info and year are both non-empty already; rules
\* 2 and 4 (lines 73, 79) come first in the chain and take it otherwise.
C5_ContinuationAppended ==
    [][(pc = "loop" /\ i < Len(lines) /\ ContinuesDescription(lines, i + 1)
          /\ information.life_info # << >> /\ information.year # << >>)
          => AppendsToDescription]_vars

\* C5 happens: description holds its first line and the lines that followed it,
\* joined by single newlines
C5_Witness ==
    /\ pc \in {"loop", "done"}
    /\ ContinuesDescription(lines, i)
    /\ i >= DescHead(lines) + 2
    /\ information.life_info # << >>
    /\ information.year # << >>
    /\ information.description = Join(SubSeq(lines, DescHead(lines), i))

\* C6: with all seven fields non-empty, a non-blank line that directly follows a
\* blank line changes no field, and the loop goes on to the next line.
C6_DroppedAfterBlank ==
    [][(pc = "loop" /\ i >= 1 /\ i < Len(lines) /\ AllSeven(information)
          /\ lines[i] = << >> /\ lines[i + 1] # << >>)
          => (information' = information /\ i' = i + 1 /\ pc' = "loop")]_vars

\* C6 happens: a sixth block head was processed with all seven fields filled
C6_Witness ==
    /\ pc \in {"loop", "done"}
    /\ i >= 2
    /\ lines[i] # << >>
    /\ lines[i - 1] = << >>
    /\ Cardinality(Heads(SubSeq(lines, 1, i))) >= 6
    /\ AllSeven(information)

\* the positions of the newlines of a text, and its n-th line (untrimmed)
NLPos(s) == { k \in 1..Len(s) : s[k] = NL }
NthNL(s, n) == CHOOSE k \in NLPos(s) : Cardinality({ j \in NLPos(s) : j < k }) = n - 1
TextLine(s, n) ==
    SubSeq(s, IF n = 1 THEN 1 ELSE NthNL(s, n - 1) + 1,
              IF n = Cardinality(NLPos(s)) + 1 THEN Len(s) ELSE NthNL(s, n) - 1)

\* a non-empty text with no whitespace at either end
Trimmed(t) == t # << >> /\ t[1] \notin Whitespace /\ t[Len(t)] \notin Whitespace

\* the text has n lines, those of `blanks` empty and the others trimmed texts
IsLayout(s, n, blanks) ==
    /\ s # NoStr
    /\ Cardinality(NLPos(s)) = n - 1
    /\ \A k \in 1..n : IF k \in blanks THEN TextLine(s, k) = << >>
                                      ELSE Trimmed(TextLine(s, k))

\* A / L / blank / T / Y / blank / M / blank / S / blank / D
Layout7(s) == IsLayout(s, 11, {3, 6, 8, 10})

\* A / L / blank / T / blank / M / blank / S / blank / D
Layout6(s) == IsLayout(s, 10, {3, 5, 7, 9})

\* C7: the layout A / L / blank / T / Y / blank / M / blank / S / blank / D parses
\* to author=A, life_info=L, title=T, year=Y, medium=M, source=S, description=D
\* and parse_success=True.
C7_FullLayout ==
    (pc = "done" /\ Layout7(raw_text)) =>
        /\ information.author = TextLine(raw_text, 1)
        /\ information.life_info = TextLine(raw_text, 2)
        /\ information.title = TextLine(raw_text, 4)
        /\ information.year = TextLine(raw_text, 5)
        /\ information.medium = TextLine(raw_text, 7)
        /\ information.source = TextLine(raw_text, 9)
        /\ information.description = TextLine(raw_text, 11)
        /\ information.parse_success = TRUE

\* C7 happens: such a layout of seven different texts has been parsed
C7_Witness ==
    /\ pc = "done"
    /\ Layout7(raw_text)
    /\ Cardinality({ information[f] : f \in Fields }) = 7

\* C8: the layout without a year line, A / L / blank / T / blank / M / blank / S /
\* blank / D, parses to author=A, life_info=L, title=T, medium=M, source=S,
\* description=D, year='' and parse_success=False.
C8_NoYearLayout ==
    (pc = "done" /\ Layout6(raw_text)) =>
        /\ information.author = TextLine(raw_text, 1)
        /\ information.life_info = TextLine(raw_text, 2)
        /\ information.title = TextLine(raw_text, 4)
        /\ information.medium = TextLine(raw_text, 6)
        /\ information.source = TextLine(raw_text, 8)
        /\ information.description = TextLine(raw_text, 10)
        /\ information.year = << >>
        /\ information.parse_success = FALSE

\* C8 happens: such a layout of six different texts has been parsed
C8_Witness ==
    /\ pc = "done"
    /\ Layout6(raw_text)
    /\ Cardinality({ information[f] : f \in Fields \ {"year"} }) = 6

\* C9: a call of parse_text returns the record every earlier call on the same
\* raw_text returned, whatever the debug flags and whatever was parsed in between.
C9_SameTextSameRecord ==
    pc = "done" =>
        \A k \in 1..Len(earlier) :
            earlier[k].raw_text = raw_text => earlier[k].result = information

\* C9 happens: a text was parsed, then another text, then the first one again with
\* the other debug flag, and fields were found
C9_Witness ==
    /\ pc = "done"
    /\ Len(earlier) = 2
    /\ earlier[1].raw_text = raw_text
    /\ earlier[1].debug # debug
    /\ earlier[2].raw_text # raw_text
    /\ earlier[2].result.description # << >>
    /\ information.title # << >>

\* C10: translate on an empty or whitespace-only text returns '' in one step: the
\* cached handle stays as it was, no model is loaded, the pipeline is not invoked.
C10_EmptyTextShortCircuit ==
    [][(tpc = "check" /\ AllWhitespace(tr_raw_text))
          => /\ tpc' = "returned"
             /\ trans_text' = << >>
             /\ _translator' = _translator
             /\ pipeline_loads' = pipeline_loads
             /\ translator_calls' = translator_calls]_vars

\* C10 happens: a whitespace-only text was answered with '' and nothing was loaded
C10_Witness ==
    /\ tpc = "returned"
    /\ tr_raw_text # << >>
    /\ AllWhitespace(tr_raw_text)
    /\ trans_text = << >>
    /\ _translator = None
    /\ pipeline_loads = << >>
    /\ translator_calls = << >>

\* the names the lookup table knows: its keys and its 2-letter and 3-letter codes
LangNames ==
    UNION { {lang_map[k].key, lang_map[k].trans, lang_map[k].ocr} : k \in 1..Len(lang_map) }

\* the language, lower-cased and trimmed as the lookup reads it, is none of them
Unsupported(lang) == Strip(Lower(lang)) \notin LangNames

\* C11: when the source or the target language given to main is neither a key of
\* the lookup table nor one of its codes, the run ends in lang_converter with the
\* 'Unsupported language' ValueError naming that language, and nothing of the
\* pipeline has run: no text was extracted, parse_text was not called, nothing was
\* translated or rendered.
C11_UnsupportedBeforePipeline ==
    (mpc # "langs" /\ (Unsupported(source_lang) \/ Unsupported(target_lang))) =>
        /\ mpc = "raised"
        /\ error = [type |-> "ValueError", msg |-> "Unsupported language",
                    arg |-> IF Unsupported(source_lang) THEN source_lang ELSE target_lang]
        /\ trans_langs = NoStr
        /\ extracted_text = NoStr
        /\ pc = "idle"
        /\ information = None
        /\ stdout = << >>
        /\ ~PastParseCheck

\* C11 happens: the source language was accepted (for OCR and for translation), the
\* target language was not, and the run has ended
C11_Witness ==
    /\ mpc = "raised"
    /\ ~Unsupported(source_lang)
    /\ Unsupported(target_lang)
    /\ error.msg = "Unsupported language"
    /\ error.arg = target_lang
    /\ extracted_text = NoStr

\* the six fields that are assigned, never appended to
SingleFields == Fields \ {"description"}

\* C12: within one parse pass every field starts empty; each of author, life_info,
\* title, year, medium and source, once non-empty, keeps its value in every later
\* step up to the return (so it is assigned at most once); description, once
\* non-empty, changes only by a newline and the line being processed being appended
\* to it.
C12_FilledOnce ==
    [][(pc \in {"check", "loop"}) =>
          /\ pc = "check" => \A f \in Fields : information[f] = << >>
          /\ \A f \in SingleFields :
                information[f] # << >> => information'[f] = information[f]
          /\ information.description # << >> =>
                \/ information'.description = information.description
                \/ /\ pc = "loop"
                   /\ i < Len(lines)
                   /\ lines[i + 1] # << >>
                   /\ information'.description =
                         information.description \o << NL >> \o lines[i + 1]]_vars

\* C12 happens: a pass has returned with the six fields filled from six different
\* lines and a description of several lines
C12_Witness ==
    /\ pc = "done"
    /\ AllSeven(information)
    /\ Cardinality({ information[f] : f \in SingleFields }) = 6
    /\ \E k \in 1..Len(information.description) : information.description[k] = NL

\* the step processes a non-blank line and assigns it to no field
DropsLine ==
    /\ pc = "loop"
    /\ i < Len(lines)
    /\ lines[i + 1] # << >>
    /\ information' = information

\* C13, as claimed: a non-blank line is dropped only when all seven fields are
\* non-empty at the moment it is processed.
C13_AsClaimed == [][DropsLine => AllSeven(information)]_vars

\* the two situations in which no rule takes a non-blank line: after a blank line
\* with the five blank-preceded fields filled, or after a non-blank line with
\* author, life_info and year filled and no description yet
NothingToFill(info, llb) ==
    \/ /\ llb = TRUE
       /\ \A f \in {"author", "title", "medium", "source", "description"} : info[f] # << >>
    \/ /\ llb = FALSE
       /\ \A f \in {"author", "life_info", "year"} : info[f] # << >>
       /\ info.description = << >>

\* C13, amended: a non-blank line is dropped exactly when the flag is set and
\* author, title, medium, source and description are non-empty (life_info and year
\* may still be empty), or the flag is clear and author, life_info and year are
\* non-empty while description is empty (title, medium and source may be empty).
C13_DroppedWhenNothingToFill ==
    [][(pc = "loop" /\ i < Len(lines) /\ lines[i + 1] # << >>)
          => (DropsLine <=> NothingToFill(information, last_line_blank))]_vars

\* C13 happens: a line that follows a blank line was processed and is in no field,
\* while life_info and year are still empty
C13_Witness ==
    /\ pc \in {"loop", "done"}
    /\ i >= 2
    /\ lines[i] # << >>
    /\ lines[i - 1] = << >>
    /\ information.life_info = << >>
    /\ information.year = << >>
    /\ information.description # << >>
    /\ \A f \in Fields : information[f] # lines[i]

\* the first non-blank line of a list of (trimmed) lines
HasText(ls) == \E k \in 1..Len(ls) : ls[k] # << >>
FirstText(ls) == ls[CHOOSE k \in 1..Len(ls) : ls[k] # << >> /\ \A j \in 1..(k - 1) : ls[j] = << >>]

\* C14: throughout a parse pass medium is filled only after title, source only after
\* medium, description only after source, year only after life_info, and nothing
\* before author, which is the first non-blank trimmed line and is filled as soon as
\* that line is processed. life_info and title are not ordered: either may be filled
\* while the other is empty.
C14_FillOrder ==
    pc \in {"check", "loop", "done"} =>
        /\ information.medium # << >> => information.title # << >>
        /\ information.source # << >> => information.medium # << >>
        /\ information.description # << >> => information.source # << >>
        /\ information.year # << >> => information.life_info # << >>
        /\ \A f \in Fields : information[f] # << >> => information.author # << >>
        /\ information.author # << >> =>
              (HasText(lines) /\ information.author = FirstText(lines))
        /\ HasText(SubSeq(lines, 1, i)) => information.author # << >>

\* C14 happens: title, medium, source and description were filled, in that order of
\* lines, while life_info (and so year) is still empty
C14_Witness ==
    /\ pc \in {"loop", "done"}
    /\ information.life_info = << >>
    /\ information.year = << >>
    /\ Cardinality(Heads(lines)) >= 5
    /\ information.author = lines[NthHead(lines, 1)]
    /\ information.title = lines[NthHead(lines, 2)]
    /\ information.medium = lines[NthHead(lines, 3)]
    /\ information.source = lines[NthHead(lines, 4)]
    /\ information.description = lines[NthHead(lines, 5)]

\* all seven fields are non-empty and the flag is set: the state a blank line
\* leaves behind once the record is complete (every assignment clears the flag)
Complete ==
    /\ pc = "loop"
    /\ AllSeven(information)
    /\ last_line_blank = TRUE

\* C15: a dropped line leaves the flag as it was; so once all seven fields are
\* non-empty and a blank line has been processed, every later step of the pass,
\* whatever line it processes, keeps the seven fields and the flag, and the fields
\* returned are those held at that blank line.
C15_NothingAfterCompleteBlank ==
    [][/\ DropsLine => last_line_blank' = last_line_blank
       /\ (pc = "loop" /\ i < Len(lines) /\ lines[i + 1] = << >>
             /\ AllSeven(information)) => Complete'
       /\ Complete =>
             /\ \A f \in Fields : information'[f] = information[f]
             /\ pc' = "loop" => Complete'
             /\ pc' \in {"loop", "done"}]_vars

\* C15 happens: a pass has returned from a complete plaque followed by a blank line
\* and then by at least two non-blank lines in a row, none of which is in a field
C15_Witness ==
    /\ pc = "done"
    /\ AllSeven(information)
    /\ HasDescHead(lines)
    /\ information.description = lines[DescHead(lines)]
    /\ Len(lines) >= DescHead(lines) + 3
    /\ lines[DescHead(lines) + 1] = << >>
    /\ lines[DescHead(lines) + 2] # << >>
    /\ lines[DescHead(lines) + 3] # << >>
    /\ \A f \in Fields : information[f] \notin {lines[DescHead(lines) + 2],
                                                 lines[DescHead(lines) + 3]}

====
